---------------------------- MODULE Spec2Model ----------------------------
(***************************************************************************)
(* A model of go-xmldom's DOM builder (dom.go): the parser handle with its *)
(* preserveWhitespace switch, the Parse / ParseFile entry points and the   *)
(* token loop that turns the tokens pulled from an xml.Decoder into a      *)
(* Document and its Nodes.                                                 *)
(*                                                                         *)
(* Pointers are naturals: 0 is nil, node k is the k-th Node allocated by   *)
(* the call (nodes[k]) and 1 is the call's only Document.  Node.Text and   *)
(* xml.CharData are sequences of one-character strings, so that            *)
(* bytes.TrimSpace is computed; names are strings, joined with \o as       *)
(* fmt.Sprintf("%s:%s") joins them.                                        *)
(***************************************************************************)
EXTENDS Integers, Sequences, FiniteSets, TLC

VARIABLES
    preserveWhitespace, \* domParserSettings.preserveWhitespace of the caller's handle
    visible,            \* values of that field a racing read of the running Parse may see
    pc,                 \* "idle", "loop" (inside for t != nil), "returned", "panic"
    entry,              \* the entry point that was called
    file,               \* the *os.File of ParseFile: "none", "open", "closed"
    closes,             \* number of file.Close() calls
    pulls,              \* number of p.Token() calls
    stk,                \* the decoder's stack of open elements (its depth)
    t,                  \* Parse's local t
    err,                \* Parse's local err
    docAddr,            \* Parse's local doc: 0 before new(Document), then 1
    doc,                \* the Document doc points to
    nodes,              \* the Nodes allocated so far, in allocation order
    e,                  \* Parse's local e, the cursor
    ret,                \* what the entry point returned: [doc, err]
    pwAtStart,          \* history: the receiver's preserveWhitespace when Parse began
    hist                \* history: the tokens processed, each with the cursor before it

vars == <<preserveWhitespace, visible, pc, entry, file, closes, pulls, stk, t, err,
          docAddr, doc, nodes, e, ret, pwAtStart, hist>>

-----------------------------------------------------------------------------
(* Bounds of the model. *)

\* the token source produces at most this many tokens before it ends or fails
MaxTokens == 4

\* at most this many attributes in the whole input
MaxAttrs == 2

-----------------------------------------------------------------------------
(* Constants of dom.go. *)

xmlPrefix == "xml"
xmlUrl == "http://www.w3.org/XML/1998/namespace"
xmlnsPrefix == "xmlns"
xmlnsUrl == "http://www.w3.org/2000/xmlns"
xlinkPrefix == "xlink"
xlinkUrl == "http://www.w3.org/1999/xlink"
xsiPrefix == "xsi"
xsiUrl == "http://www.w3.org/2001/XMLSchema-instance"

-----------------------------------------------------------------------------
(* The tokens of encoding/xml, as Parse sees them. *)

NoToken ==
    [kind |-> "nil", Name |-> "", Attr |-> <<>>, Data |-> <<>>, Target |-> "", Inst |-> ""]

StartElementTok(name, attr) == [NoToken EXCEPT !.kind = "StartElement", !.Name = name, !.Attr = attr]
EndElementTok == [NoToken EXCEPT !.kind = "EndElement"]
CharDataTok(data) == [NoToken EXCEPT !.kind = "CharData", !.Data = data]
CommentTok == [NoToken EXCEPT !.kind = "Comment"]
ProcInstTok(target, inst) == [NoToken EXCEPT !.kind = "ProcInst", !.Target = target, !.Inst = inst]
DirectiveTok(d) == [NoToken EXCEPT !.kind = "Directive", !.Inst = d]

\* An xml.Attr as the decoder delivers it: Name.Space is the namespace the decoder
\* resolved, Name.Local and Value are the source's.  Prefix is the prefix written in
\* the source text; the token does not carry it (it is history only).
XmlAttr(space, local, value, prefix) ==
    [Space |-> space, Local |-> local, Value |-> value, Prefix |-> prefix]

\* errors a token source reports other than io.EOF
SourceErrors == {"syntaxError", "readError"}

\* what one p.Token() call can return from a strict decoder (xml.NewDecoder) that has
\* produced `produced` tokens and holds `depth` open elements: a token (an end-element
\* only for an open element), io.EOF (only with no element open) or an error.
TokenResults(Toks, produced, depth) ==
    {[t |-> tok, err |-> "nil"] :
        tok \in {x \in Toks : produced < MaxTokens /\ (x.kind = "EndElement" => depth > 0)}}
    \cup (IF depth = 0 THEN {[t |-> NoToken, err |-> "EOF"]} ELSE {})
    \cup {[t |-> NoToken, err |-> er] : er \in SourceErrors}

\* what one Token() call could return from a source that checks no balance: any
\* token, io.EOF or an error at any point
UncheckedResults(Toks, produced) ==
    {[t |-> tok, err |-> "nil"] : tok \in {x \in Toks : produced < MaxTokens}}
    \cup {[t |-> NoToken, err |-> "EOF"]}
    \cup {[t |-> NoToken, err |-> er] : er \in SourceErrors}

\* the decoder's stack depth after it has produced tok
Push(depth, tok) ==
    CASE tok.kind = "StartElement" -> depth + 1
      [] tok.kind = "EndElement" -> depth - 1
      [] OTHER -> depth

-----------------------------------------------------------------------------
(* The pure parts of Parse. *)

\* white space as bytes.TrimSpace sees it (the ASCII part)
WhiteSpace == {" ", "\t", "\n", "\f", "\r"}

RECURSIVE TrimLeft(_)
TrimLeft(b) ==
    IF b # <<>> /\ Head(b) \in WhiteSpace THEN TrimLeft(Tail(b)) ELSE b

RECURSIVE TrimRight(_)
TrimRight(b) ==
    IF b # <<>> /\ b[Len(b)] \in WhiteSpace THEN TrimRight(SubSeq(b, 1, Len(b) - 1)) ELSE b

\* bytes.TrimSpace
TrimSpace(b) == TrimRight(TrimLeft(b))

\* the two branches the wrong way round
CharDataTextSwapped(pw, data) == IF pw THEN TrimSpace(data) ELSE data

\* the text a CharData token leaves on the cursor, by the setting read
CharDataText(pw, data) == IF pw THEN data ELSE TrimSpace(data)

\* a name that joins Space and Local whatever the namespace, as before the table
AttrNameWithoutTable(attr) ==
    IF attr.Space # "" THEN attr.Space \o ":" \o attr.Local ELSE attr.Local

\* a name that does not test for an empty Space
AttrNameAlwaysJoined(attr) ==
    CASE attr.Space = xmlnsUrl -> xmlnsPrefix \o ":" \o attr.Local
      [] attr.Space = xmlUrl -> xmlPrefix \o ":" \o attr.Local
      [] attr.Space = xlinkUrl -> xlinkPrefix \o ":" \o attr.Local
      [] attr.Space = xsiUrl -> xsiPrefix \o ":" \o attr.Local
      [] OTHER -> attr.Space \o ":" \o attr.Local

\* the name an attribute is stored under
AttrName(attr) ==
    IF attr.Space # ""
    THEN CASE attr.Space = xmlnsUrl -> xmlnsPrefix \o ":" \o attr.Local
           [] attr.Space = xmlUrl -> xmlPrefix \o ":" \o attr.Local
           [] attr.Space = xlinkUrl -> xlinkPrefix \o ":" \o attr.Local
           [] attr.Space = xsiUrl -> xsiPrefix \o ":" \o attr.Local
           [] OTHER -> attr.Space \o ":" \o attr.Local
    ELSE attr.Local

\* the Attribute appended for one xml.Attr
NewAttribute(attr) == [Name |-> AttrName(attr), Value |-> attr.Value]

\* el.Attributes after the loop over token.Attr
RECURSIVE Attributes(_)
Attributes(attrs) ==
    IF attrs = <<>> THEN <<>>
    ELSE Append(Attributes(SubSeq(attrs, 1, Len(attrs) - 1)), NewAttribute(attrs[Len(attrs)]))

\* new(Document)
NewDocument == [Root |-> 0, ProcInst |-> "", Directives |-> <<>>]

\* stringifyProcInst and stringifyDirective
StringifyProcInst(tok) == "<?" \o tok.Target \o " " \o tok.Inst \o "?>"
StringifyDirective(tok) == "<!" \o tok.Inst \o ">"

\* The locals of the loop are a record [nodes, doc, e, panic]; each case of the
\* switch maps it.

\* a new Node whose Parent is the Document's Root instead of the cursor
NewNodeUnderRoot(b, tok) ==
    [Document |-> docAddr, Parent |-> b.doc.Root, Name |-> tok.Name,
     Attributes |-> Attributes(tok.Attr), Text |-> <<>>, Children |-> <<>>]

\* el: new(Node), its Document, Parent, Name and Attributes
NewNode(b, tok) ==
    [Document |-> docAddr, Parent |-> b.e, Name |-> tok.Name,
     Attributes |-> Attributes(tok.Attr), Text |-> <<>>, Children |-> <<>>]

\* a new Node that is never appended to the cursor's Children
LinkChildNever(b, id) == b.nodes

\* a link that puts the new Node in front of its siblings
LinkChildInFront(b, id) ==
    IF b.e # 0 THEN [b.nodes EXCEPT ![b.e].Children = <<id>> \o @] ELSE b.nodes

\* if e != nil { e.Children = append(e.Children, el) }
LinkChild(b, id) ==
    IF b.e # 0 THEN [b.nodes EXCEPT ![b.e].Children = Append(@, id)] ELSE b.nodes

\* a root that follows every new Node
RootAlwaysSet(root, id) == id

\* if doc.Root == nil { doc.Root = e }
RootAfter(root, id) == IF root = 0 THEN id ELSE root

\* case xml.StartElement
OnStartElement(b, tok) ==
    LET id == Len(b.nodes) + 1
    IN  [b EXCEPT !.nodes = Append(LinkChild(b, id), NewNode(b, tok)),
                  !.e = id,
                  !.doc.Root = RootAfter(b.doc.Root, id)]

\* an EndElement case that tests the cursor and skips an unmatched end-element
OnEndElementChecked(b) ==
    IF b.e = 0 THEN b ELSE [b EXCEPT !.e = b.nodes[b.e].Parent]

\* an EndElement case that leaves the cursor where it is
OnEndElementStay(b) == b

\* case xml.EndElement: e = e.Parent, a nil dereference when e is nil
OnEndElement(b) ==
    IF b.e = 0 THEN [b EXCEPT !.panic = TRUE] ELSE [b EXCEPT !.e = b.nodes[b.e].Parent]

\* a CharData case that trims with bytes.TrimLeft where TrimSpace is meant
OnCharDataLeftTrimmed(b, tok, pw) ==
    IF b.e # 0
    THEN [b EXCEPT !.nodes[b.e].Text = IF pw THEN tok.Data ELSE TrimLeft(tok.Data)]
    ELSE b

\* a CharData case without the test for a nil cursor: e.Text on nil panics
OnCharDataUnguarded(b, tok, pw) ==
    IF b.e # 0
    THEN [b EXCEPT !.nodes[b.e].Text = CharDataText(pw, tok.Data)]
    ELSE [b EXCEPT !.panic = TRUE]

\* a CharData case that adds the run to the text already there
OnCharDataAppended(b, tok, pw) ==
    IF b.e # 0
    THEN [b EXCEPT !.nodes[b.e].Text = @ \o CharDataText(pw, tok.Data)]
    ELSE b

\* a CharData case that never looks at the setting
OnCharDataVerbatim(b, tok, pw) ==
    IF b.e # 0 THEN [b EXCEPT !.nodes[b.e].Text = tok.Data] ELSE b

\* case xml.CharData, pw being the value read from s.preserveWhitespace
OnCharData(b, tok, pw) ==
    IF b.e # 0 THEN [b EXCEPT !.nodes[b.e].Text = CharDataText(pw, tok.Data)] ELSE b

\* a ProcInst case that keeps the first processing instruction
OnProcInstFirstWins(b, tok) ==
    IF b.doc.ProcInst = "" THEN [b EXCEPT !.doc.ProcInst = StringifyProcInst(tok)] ELSE b

\* case xml.ProcInst
OnProcInst(b, tok) == [b EXCEPT !.doc.ProcInst = StringifyProcInst(tok)]

\* a Directive case that puts the directive in front of the earlier ones
OnDirectiveInFront(b, tok) ==
    [b EXCEPT !.doc.Directives = <<StringifyDirective(tok)>> \o @]

\* case xml.Directive
OnDirective(b, tok) == [b EXCEPT !.doc.Directives = Append(@, StringifyDirective(tok))]

\* the switch on the token's type; a token of another type (a comment) matches no case
Switch(b, tok, pw) ==
    CASE tok.kind = "StartElement" -> OnStartElement(b, tok)
      [] tok.kind = "EndElement" -> OnEndElement(b)
      [] tok.kind = "CharData" -> OnCharData(b, tok, pw)
      [] tok.kind = "ProcInst" -> OnProcInst(b, tok)
      [] tok.kind = "Directive" -> OnDirective(b, tok)
      [] OTHER -> b

-----------------------------------------------------------------------------
(* The entry points. *)

\* NewDOMParser(): &domParserSettings{}
NewDOMParser == [preserveWhitespace |-> FALSE]

\* the entry points that open a file
FileEntries == {"ParseFile", "s.ParseFile"}

\* the entry points of the package, which parse with NewDOMParser()'s settings
PackageEntries == {"Parse", "ParseFile"}

\* the values a read of the receiver's preserveWhitespace can return during the
\* call: the package's entry points own a fresh receiver nobody else holds; the
\* caller's handle may be written by PreserveWhitespace while Parse reads it, an
\* unsynchronised read that sees the value at the start or any value written since
ReadPreserveWhitespace ==
    IF entry \in PackageEntries THEN {NewDOMParser.preserveWhitespace} ELSE visible

\* a first-pull test that lets io.EOF through to the loop
FirstPullFailsUnlessEOF(er) == er # "nil" /\ er # "EOF"

\* the test on the first pull: if err != nil { return nil, err }
FirstPullFails(er) == er # "nil"

\* a return that hands out the Document built so far together with the error
ReturnValueWithPartial(er, d) ==
    IF er # "EOF" THEN [doc |-> d, err |-> er] ELSE [doc |-> d, err |-> "nil"]

\* a return that does not look at what ended the loop
ReturnValueIgnoringError(er, d) == [doc |-> d, err |-> "nil"]

\* the return after the loop, er being err and d being doc
ReturnValue(er, d) ==
    IF er # "EOF" THEN [doc |-> 0, err |-> er] ELSE [doc |-> d, err |-> "nil"]

\* a ParseFile that never closes its file
NeverClosed(f) == f

\* ParseFile's deferred file.Close(), on the file's state [file, closes]
DeferredClose(f) ==
    IF f.file = "open" THEN [file |-> "closed", closes |-> f.closes + 1] ELSE f

Init ==
    /\ preserveWhitespace = NewDOMParser.preserveWhitespace
    /\ visible = {NewDOMParser.preserveWhitespace}
    /\ pc = "idle"
    /\ entry = "none"
    /\ file = "none"
    /\ closes = 0
    /\ pulls = 0
    /\ stk = 0
    /\ t = NoToken
    /\ err = "nil"
    /\ docAddr = 0
    /\ doc = NewDocument
    /\ nodes = <<>>
    /\ e = 0
    /\ ret = [doc |-> 0, err |-> "none"]
    /\ pwAtStart = FALSE
    /\ hist = <<>>

\* s.PreserveWhitespace(f) on the caller's handle, before or during the call
PreserveWhitespace(f) ==
    /\ pc \in {"idle", "loop"}
    /\ preserveWhitespace' = f
    /\ visible' = IF pc = "loop" THEN visible \cup {f} ELSE {f}
    /\ UNCHANGED <<pc, entry, file, closes, pulls, stk, t, err, docAddr, doc, nodes, e,
                   ret, pwAtStart, hist>>

\* ParseFile whose os.Open fails: the error is returned
OpenFails(ent) ==
    /\ pc = "idle"
    /\ ent \in FileEntries
    /\ entry' = ent
    /\ ret' = [doc |-> 0, err |-> "openError"]
    /\ pc' = "returned"
    /\ UNCHANGED <<preserveWhitespace, visible, file, closes, pulls, stk, t, err, docAddr,
                   doc, nodes, e, pwAtStart, hist>>

\* An entry point up to the head of the loop: ParseFile opens the file, Parse makes
\* the decoder and pulls the first token; an error of that pull is returned (and the
\* file closed), else the Document is allocated.
BeginOn(ent, Results) ==
    /\ pc = "idle"
    /\ entry' = ent
    /\ pwAtStart' = IF ent \in PackageEntries THEN NewDOMParser.preserveWhitespace
                    ELSE preserveWhitespace
    /\ \E r \in Results :
          LET opened == [file |-> IF ent \in FileEntries THEN "open" ELSE "none",
                         closes |-> closes]
              after == IF FirstPullFails(r.err) THEN DeferredClose(opened) ELSE opened
          IN  /\ t' = r.t
              /\ err' = r.err
              /\ pulls' = pulls + 1
              /\ stk' = Push(stk, r.t)
              /\ file' = after.file
              /\ closes' = after.closes
              /\ IF FirstPullFails(r.err)
                 THEN /\ ret' = [doc |-> 0, err |-> r.err]
                      /\ pc' = "returned"
                      /\ docAddr' = 0
                 ELSE /\ ret' = ret
                      /\ pc' = "loop"
                      /\ docAddr' = 1
    /\ UNCHANGED <<preserveWhitespace, visible, doc, nodes, e, hist>>

\* an entry point reading from the strict decoder Parse makes
Begin(ent, Toks) == BeginOn(ent, TokenResults(Toks, 0, 0))

\* One turn of the loop: the switch on t, then the next p.Token().  A nil
\* dereference panics; the deferred Close runs as the panic unwinds.
StepOn(Results) ==
    /\ pc = "loop"
    /\ t.kind # "nil"
    /\ \E pw \in ReadPreserveWhitespace :
          LET b == Switch([nodes |-> nodes, doc |-> doc, e |-> e, panic |-> FALSE], t, pw)
              closed == DeferredClose([file |-> file, closes |-> closes])
          IN  /\ nodes' = b.nodes
              /\ doc' = b.doc
              /\ e' = b.e
              /\ hist' = Append(hist, [tok |-> t, cur |-> e])
              /\ IF b.panic
                 THEN /\ pc' = "panic"
                      /\ file' = closed.file
                      /\ closes' = closed.closes
                      /\ UNCHANGED <<t, err, pulls, stk>>
                 ELSE /\ pc' = "loop"
                      /\ \E r \in Results :
                            /\ t' = r.t
                            /\ err' = r.err
                            /\ stk' = Push(stk, r.t)
                      /\ pulls' = pulls + 1
                      /\ UNCHANGED <<file, closes>>
    /\ UNCHANGED <<preserveWhitespace, visible, entry, docAddr, ret, pwAtStart>>

\* a turn of the loop reading from the strict decoder
Step(Toks) == StepOn(TokenResults(Toks, pulls, stk))

\* After the loop: anything but io.EOF is returned as the error, io.EOF returns the
\* Document; ParseFile's deferred Close runs.
Return ==
    /\ pc = "loop"
    /\ t.kind = "nil"
    /\ ret' = ReturnValue(err, docAddr)
    /\ pc' = "returned"
    /\ LET closed == DeferredClose([file |-> file, closes |-> closes])
       IN  file' = closed.file /\ closes' = closed.closes
    /\ UNCHANGED <<preserveWhitespace, visible, entry, pulls, stk, t, err, docAddr, doc,
                   nodes, e, pwAtStart, hist>>

-----------------------------------------------------------------------------
(* The inputs and the specifications. *)

Names == {"a", "b"}

\* character data: " b " and a run of white space only
CharDatas == {<<" ", "b", " ">>, <<" ", "\n">>}

\* elements without attributes, character data and a comment
MainTokens ==
    {StartElementTok(n, <<>>) : n \in Names}
    \cup {EndElementTok, CommentTok}
    \cup {CharDataTok(d) : d \in CharDatas}

\* Parse on a reader, by the package's function or on the caller's handle, while
\* the caller may set the handle's preserveWhitespace
Next ==
    \/ \E f \in BOOLEAN : PreserveWhitespace(f)
    \/ \E ent \in {"Parse", "s.Parse"} : Begin(ent, MainTokens)
    \/ Step(MainTokens)
    \/ Return

Spec == Init /\ [][Next]_vars

\* ParseFile, by the package's function or on the caller's handle
FileTokens == {StartElementTok("a", <<>>), EndElementTok, CharDataTok(<<" ", "b", " ">>)}

NextFile ==
    \/ \E f \in BOOLEAN : PreserveWhitespace(f)
    \/ \E ent \in FileEntries : OpenFails(ent)
    \/ \E ent \in FileEntries : Begin(ent, FileTokens)
    \/ Step(FileTokens)
    \/ Return

SpecFile == Init /\ [][NextFile]_vars

\* Attributes: what the decoder delivers for a source attribute.  An attribute
\* without prefix has no Space; xmlns:p="..." keeps Space "xmlns"; a prefix bound
\* to a namespace is replaced by that namespace's URI, whatever the prefix was.
AttrPool ==
    {XmlAttr("", "id", " v ", ""),
     XmlAttr("xmlns", "xlink", xlinkUrl, "xmlns"),
     XmlAttr(xmlnsUrl, "p", " v ", "n"),
     XmlAttr(xmlUrl, "lang", " v ", "xml"),
     XmlAttr(xlinkUrl, "href", " v ", "xl"),
     XmlAttr(xlinkUrl, "href", " v ", "xlink"),
     XmlAttr(xsiUrl, "type", " v ", "xsi"),
     XmlAttr("urn:o", "k", " v ", "o")}

\* the attribute lists of at most n attributes
AttrLists(n) == UNION {[1..k -> AttrPool] : k \in 0..n}

RECURSIVE AttrCount(_)
AttrCount(ns) == IF ns = <<>> THEN 0 ELSE Len(Head(ns).Attributes) + AttrCount(Tail(ns))

\* the attributes the source has delivered so far
AttrsUsed == AttrCount(nodes) + Len(t.Attr)

\* elements with attributes, MaxAttrs attributes in all
AttrTokens ==
    {StartElementTok("a", as) : as \in AttrLists(MaxAttrs - AttrsUsed)} \cup {EndElementTok}

NextAttr ==
    \/ Begin("Parse", AttrTokens)
    \/ Step(AttrTokens)
    \/ Return

SpecAttr == Init /\ [][NextAttr]_vars

\* The whole Document: an element with an attribute, character data, two
\* processing instructions and two directives
DocTokens ==
    {StartElementTok("a", <<XmlAttr("", "id", " v ", "")>>),
     EndElementTok,
     CharDataTok(<<" ", "b", " ">>),
     ProcInstTok("xml", "version"),
     ProcInstTok("xml-stylesheet", "href"),
     DirectiveTok("DOCTYPE a"),
     DirectiveTok("ENTITY b")}

NextDoc ==
    \/ \E f \in BOOLEAN : PreserveWhitespace(f)
    \/ \E ent \in {"Parse", "s.Parse"} : Begin(ent, DocTokens)
    \/ Step(DocTokens)
    \/ Return

SpecDoc == Init /\ [][NextDoc]_vars

\* The builder fed by a token source that checks no balance (tokens handed to the
\* loop as they come), to see what the loop itself does with an end-element that
\* closes nothing.  Every run of the strict decoder is one of these runs.
NextRaw ==
    \/ \E ent \in {"Parse", "s.Parse"} : BeginOn(ent, UncheckedResults(FileTokens, 0))
    \/ StepOn(UncheckedResults(FileTokens, pulls))
    \/ Return

SpecRaw == Init /\ [][NextRaw]_vars

\* Termination: every entry point over a short alphabet.  A started call keeps
\* running: the loop takes its next turn and the return is taken, so both are
\* weakly fair; the calls of PreserveWhitespace are another goroutine's and need
\* not happen.
NextTerm ==
    \/ \E f \in BOOLEAN : PreserveWhitespace(f)
    \/ \E ent \in FileEntries : OpenFails(ent)
    \/ \E ent \in FileEntries \cup {"Parse", "s.Parse"} : Begin(ent, FileTokens)
    \/ Step(FileTokens)
    \/ Return

SpecTerm ==
    Init /\ [][NextTerm]_vars /\ WF_vars(Step(FileTokens)) /\ WF_vars(Return)

-----------------------------------------------------------------------------
(* What the claims speak of. *)

\* the call returned a Document and no error
Success == pc = "returned" /\ ret.err = "nil"

\* the start-element tokens processed, in order: the k-th made nodes[k]
Starts == SelectSeq(hist, LAMBDA h : h.tok.kind = "StartElement")

\* an error of the token source other than end-of-input is held in err
SourceFailed == pulls >= 1 /\ err \in SourceErrors

-----------------------------------------------------------------------------
(* C1 *)

\* C1 as stated: when the very first pull reports end-of-input, Parse returns a
\* non-nil Document with Root absent and a nil error.
C1_EmptyInputSucceeds ==
    (pc = "returned" /\ pulls = 1 /\ err = "EOF")
        => (ret.err = "nil" /\ ret.doc # 0 /\ doc.Root = 0)

\* C1 amended: when the very first pull reports end-of-input, Parse returns that
\* end-of-input error and a nil Document, and allocates no Document.
C1_EmptyInputReturnsEOF ==
    (pulls = 1 /\ err = "EOF")
        => (pc = "returned" /\ ret = [doc |-> 0, err |-> "EOF"] /\ docAddr = 0)

\* the first pull reported end-of-input and the call has returned
C1_Witness == pc = "returned" /\ pulls = 1 /\ err = "EOF" /\ hist = <<>>

-----------------------------------------------------------------------------
(* C2 *)

\* C2: wherever the token source reports an error other than end-of-input, on
\* the first pull or after any number of tokens, that pull is the last one (one
\* pull more than tokens processed), and the call returns exactly that error and
\* a nil Document, whatever was built.
C2_SourceErrorPropagated ==
    SourceFailed =>
        /\ pulls = Len(hist) + 1
        /\ t = NoToken
        /\ pc \in {"loop", "returned"}
        /\ pc = "returned" => ret = [doc |-> 0, err |-> err]

\* the source failed after a Node had been built, and the call has returned
C2_Witness ==
    pc = "returned" /\ err = "syntaxError" /\ Len(nodes) >= 1 /\ docAddr = 1 /\ ret.doc = 0

-----------------------------------------------------------------------------
(* C3 *)

\* a turn of the loop stores the character data of t on the cursor
StoresCharData == hist' # hist /\ t.kind = "CharData" /\ e # 0

\* the text a setting v makes of character data
TextUnder(v, data) == IF v THEN data ELSE TrimSpace(data)

\* the values the receiver's setting has had since the parse started: the
\* package's Parse has a receiver of its own, the handle's are recorded in visible
SettingsSinceStart == IF entry \in PackageEntries THEN {FALSE} ELSE visible

\* C3 as stated: a PreserveWhitespace call made after a Parse on the handle has
\* started has no effect on it: every character-data token is trimmed or kept
\* according to the setting that held when the parse started.
C3_SettingFixedAtStart ==
    [][StoresCharData => nodes'[e].Text = TextUnder(pwAtStart, t.Data)]_vars

\* C3 amended: a PreserveWhitespace call made on the handle while a Parse on it
\* is running can take effect on that parse: every character-data token is
\* trimmed or kept verbatim according to a value the handle's setting has had
\* since the parse started, the starting value or one set by such a call.
C3_SettingReadPerToken ==
    [][StoresCharData =>
          \E v \in SettingsSinceStart : nodes'[e].Text = TextUnder(v, t.Data)]_vars

\* a parse on the handle that started with trimming holds untrimmed text
C3_Witness ==
    /\ entry = "s.Parse"
    /\ pwAtStart = FALSE
    /\ \E n \in 1..Len(nodes) : nodes[n].Text = <<" ", "b", " ">>

-----------------------------------------------------------------------------
(* C4 *)

NodeIds == 1..Len(nodes)

\* the Node (or nil) reached from n by k Parent links
RECURSIVE Walk(_, _)
Walk(n, k) == IF n = 0 \/ k = 0 THEN n ELSE Walk(nodes[n].Parent, k - 1)

\* following Parent links from n ends at nil
NoParentCycle(n) == Walk(n, Len(nodes)) = 0

\* Document.Root is reached from n by repeated Parent traversal
ReachesRoot(n) == doc.Root # 0 /\ \E k \in 0..Len(nodes) : Walk(n, k) = doc.Root

\* the Nodes that hold n among their Children
ParentsOf(n) ==
    {p \in NodeIds : \E i \in DOMAIN nodes[p].Children : nodes[p].Children[i] = n}

\* the place in the input of the start-element that made Node n
StartPos(n) ==
    CHOOSE i \in 1..Len(hist) :
        /\ hist[i].tok.kind = "StartElement"
        /\ Cardinality({j \in 1..i : hist[j].tok.kind = "StartElement"}) = n

\* the place in the input of the end-element that closed Document.Root (past the
\* end when it is still open)
RootClosedAt ==
    LET S == {i \in 1..Len(hist) : hist[i].tok.kind = "EndElement" /\ hist[i].cur = doc.Root}
    IN  IF S = {} THEN Len(hist) + 1 ELSE CHOOSE i \in S : \A j \in S : i <= j

\* C4 as stated: after a successful parse the node graph is a tree rooted at
\* Document.Root: every Node but Document.Root has exactly one parent, Parent
\* links never cycle, and Document.Root is reached from every Node, those of
\* elements opened after the first top-level element was closed included.
C4_TreeRootedAtRoot ==
    Success =>
        \A n \in NodeIds :
            /\ NoParentCycle(n)
            /\ n # doc.Root =>
                  (nodes[n].Parent # 0 /\ ParentsOf(n) = {nodes[n].Parent})
            /\ ReachesRoot(n)

\* C4 amended: after a successful parse the node graph is a forest, one tree per
\* top-level element: a Node created while an element was open has exactly one
\* parent, a Node created while none was open has no parent, Parent links never
\* cycle, Document.Root is the first Node created, and Document.Root is reached
\* by repeated Parent traversal from exactly the Nodes created before the first
\* top-level element was closed; the Nodes of later top-level elements do not
\* reach it.
C4_ForestFirstTreeAtRoot ==
    Success =>
        \A n \in NodeIds :
            /\ NoParentCycle(n)
            /\ Starts[n].cur # 0 =>
                  (nodes[n].Parent = Starts[n].cur /\ ParentsOf(n) = {nodes[n].Parent})
            /\ Starts[n].cur = 0 => (nodes[n].Parent = 0 /\ ParentsOf(n) = {})
            /\ doc.Root = 1
            /\ ReachesRoot(n) <=> StartPos(n) < RootClosedAt

\* a successful parse of two top-level elements: the second Node has no parent
\* and is not Document.Root
C4_Witness ==
    Success /\ Len(nodes) = 2 /\ doc.Root = 1 /\ nodes[2].Parent = 0 /\ stk = 0

-----------------------------------------------------------------------------
(* C5 *)

\* Document.Root, once set, is the Node of the first start-element: it has that
\* token's local name and no parent
RootIsFirstElement ==
    doc.Root # 0 =>
        /\ Starts # <<>>
        /\ doc.Root = 1
        /\ nodes[doc.Root].Name = Starts[1].tok.Name
        /\ nodes[doc.Root].Parent = 0

\* C5: on success Document.Root is non-nil exactly when the input held a
\* start-element; it is the Node of the first start-element, with that token's
\* local name and no parent, and no later token reassigns it.
C5_RootIsFirstStartElement ==
    /\ [](Success => (doc.Root # 0 <=> Starts # <<>>))
    /\ []RootIsFirstElement
    /\ [][doc.Root # 0 => doc'.Root = doc.Root]_vars

\* a successful parse of two elements, named differently: the root is the first
C5_Witness ==
    /\ Success
    /\ Len(nodes) = 2
    /\ doc.Root = 1
    /\ nodes[1].Name = "b"
    /\ nodes[2].Name = "a"

-----------------------------------------------------------------------------
(* C6 *)

\* the Nodes made by the start-elements processed while n was the cursor, in the
\* order the tokens were received
MadeUnder(n) ==
    SelectSeq([k \in 1..Len(Starts) |-> k], LAMBDA k : Starts[k].cur = n)

\* C6: the Children of every Node are exactly the Nodes made by the
\* start-elements processed while that Node was the cursor, in the order
\* received, and its Attributes are exactly the attributes of its start-element,
\* one for one in source order.
C6_ChildrenAndAttributesInOrder ==
    /\ Len(nodes) = Len(Starts)
    /\ \A n \in NodeIds :
          /\ nodes[n].Children = MadeUnder(n)
          /\ Len(nodes[n].Attributes) = Len(Starts[n].tok.Attr)
          /\ \A i \in DOMAIN Starts[n].tok.Attr :
                nodes[n].Attributes[i] = [Name |-> AttrName(Starts[n].tok.Attr[i]),
                                          Value |-> Starts[n].tok.Attr[i].Value]

\* a Node with two children, and a Node with two different attributes
C6_Witness ==
    /\ \E n \in NodeIds : Len(nodes[n].Children) = 2
    /\ \E n \in NodeIds :
          /\ Len(nodes[n].Attributes) = 2
          /\ nodes[n].Attributes[1] # nodes[n].Attributes[2]

-----------------------------------------------------------------------------
(* C8 *)

\* the attributes delivered for Node n, each with the Attribute stored for it
AttrPairs(n) ==
    {[in |-> Starts[n].tok.Attr[i], out |-> nodes[n].Attributes[i]] :
        i \in DOMAIN Starts[n].tok.Attr \cap DOMAIN nodes[n].Attributes}

AllAttrPairs == UNION {AttrPairs(n) : n \in NodeIds}

\* the four reserved namespaces and their fixed prefixes, as the claims give them
ReservedPrefix ==
    [x \in {"http://www.w3.org/2000/xmlns", "http://www.w3.org/XML/1998/namespace",
            "http://www.w3.org/1999/xlink", "http://www.w3.org/2001/XMLSchema-instance"} |->
        CASE x = "http://www.w3.org/2000/xmlns" -> "xmlns"
          [] x = "http://www.w3.org/XML/1998/namespace" -> "xml"
          [] x = "http://www.w3.org/1999/xlink" -> "xlink"
          [] x = "http://www.w3.org/2001/XMLSchema-instance" -> "xsi"]

\* C8: an attribute whose namespace is one of the four reserved URIs is stored
\* under <fixed prefix>:<local name>, whatever prefix the source used, with its
\* value unchanged.
C8_ReservedNamespacePrefix ==
    \A n \in NodeIds :
        /\ Len(nodes[n].Attributes) = Len(Starts[n].tok.Attr)
        /\ \A p \in AttrPairs(n) :
              p.in.Space \in DOMAIN ReservedPrefix =>
                  /\ p.out.Name = ReservedPrefix[p.in.Space] \o ":" \o p.in.Local
                  /\ p.out.Value = p.in.Value

\* an xlink attribute written with the prefix xl is stored as xlink:href
C8_Witness ==
    \E p \in AllAttrPairs :
        /\ p.in.Space = "http://www.w3.org/1999/xlink"
        /\ p.in.Prefix = "xl"
        /\ p.out = [Name |-> "xlink:href", Value |-> " v "]

-----------------------------------------------------------------------------
(* C9 *)

\* C9 as stated: an attribute in a namespace that is not reserved is stored
\* under prefix:localName, the prefix being the one the source declared for the
\* URI (not the URI); an attribute without namespace is stored under its local
\* name.
C9_DeclaredPrefixUsed ==
    \A p \in AllAttrPairs :
        /\ (p.in.Space # "" /\ p.in.Space \notin DOMAIN ReservedPrefix)
              => p.out.Name = p.in.Prefix \o ":" \o p.in.Local
        /\ p.in.Space = "" => p.out.Name = p.in.Local

\* C9 amended: an attribute in a namespace that is not reserved is stored under
\* Space:localName, Space being the namespace string the token carries for it
\* (the URI the decoder resolved the source prefix to, not that prefix); an
\* attribute without namespace is stored under its local name, with no prefix
\* and no colon.
C9_TokenNamespaceUsed ==
    \A n \in NodeIds :
        /\ Len(nodes[n].Attributes) = Len(Starts[n].tok.Attr)
        /\ \A p \in AttrPairs(n) :
              /\ (p.in.Space # "" /\ p.in.Space \notin DOMAIN ReservedPrefix)
                    => p.out.Name = p.in.Space \o ":" \o p.in.Local
              /\ p.in.Space = "" => p.out.Name = p.in.Local

\* an attribute written o:k, o bound to urn:o, is stored as urn:o:k, and one
\* without namespace as id
C9_Witness ==
    /\ \E p \in AllAttrPairs :
          p.in.Prefix = "o" /\ p.in.Space = "urn:o" /\ p.out.Name = "urn:o:k"
    /\ \E p \in AllAttrPairs : p.in.Space = "" /\ p.out.Name = "id"

-----------------------------------------------------------------------------
(* C7 *)

\* r is d without its leading and trailing white space: what is cut off at both
\* ends is white space and what is left neither starts nor ends with any
IsTrimOf(r, d) ==
    \E i \in 1..Len(d) + 1 : \E j \in 0..Len(d) :
        /\ r = SubSeq(d, i, j)
        /\ \A k \in 1..Len(d) : (k < i \/ k > j) => d[k] \in {" ", "\t", "\n", "\f", "\r"}
        /\ r # <<>> => (r[1] \notin {" ", "\t", "\n", "\f", "\r"}
                        /\ r[Len(r)] \notin {" ", "\t", "\n", "\f", "\r"})

\* the receiver's setting was v when the parse started and no call has set another
SettingIs(v) == SettingsSinceStart = {v}

\* C7: a handle from NewDOMParser has preserveWhitespace false (and so has the
\* receiver of the package's Parse); under false the text stored from a
\* character-data token is the token's content without leading and trailing
\* white space, under true it is the content verbatim: " bar " gives "bar",
\* respectively " bar ".
C7_WhitespacePolicy ==
    /\ preserveWhitespace = FALSE
    /\ [][StoresCharData =>
            /\ SettingIs(FALSE) => IsTrimOf(nodes'[e].Text, t.Data)
            /\ SettingIs(TRUE) => nodes'[e].Text = t.Data
            /\ (SettingIs(FALSE) /\ t.Data = <<" ", "b", " ">>) => nodes'[e].Text = <<"b">>]_vars

\* a handle set to preserve white space before its parse has stored " b " as is
C7_Witness ==
    /\ entry = "s.Parse"
    /\ pwAtStart
    /\ SettingIs(TRUE)
    /\ \E n \in NodeIds : nodes[n].Text = <<" ", "b", " ">>

-----------------------------------------------------------------------------
(* C10 *)

\* C10: for both ParseFile entry points, a failed open returns the open error
\* and a nil Document and no token is ever pulled; after a successful open the
\* file is closed exactly once when ParseFile has returned, whether the parse
\* succeeded, failed on the first token or failed mid-stream, and not before.
C10_FileClosedOnEveryPath ==
    entry \in FileEntries =>
        /\ closes <= 1
        /\ ret.err = "openError" =>
              (pc = "returned" /\ ret.doc = 0 /\ pulls = 0 /\ file = "none" /\ closes = 0)
        /\ pc = "loop" => (file = "open" /\ closes = 0)
        /\ (pc = "returned" /\ ret.err # "openError") =>
              (file = "closed" /\ closes = 1 /\ pulls >= 1)

\* the method's ParseFile has returned a source error met after a token was
\* processed, its file closed once
C10_Witness ==
    /\ entry = "s.ParseFile"
    /\ pc = "returned"
    /\ ret.err = "syntaxError"
    /\ Len(hist) >= 1
    /\ closes = 1

-----------------------------------------------------------------------------
(* C11 *)

\* the character-data tokens processed while n was the cursor, in order
CharDataUnder(n) ==
    SelectSeq(hist, LAMBDA h : h.tok.kind = "CharData" /\ h.cur = n)

\* the content of the last of them
LastCharData(n) == CharDataUnder(n)[Len(CharDataUnder(n))].tok.Data

\* C11: the Text of every Node is the content of the last character-data token
\* received while that Node was the cursor (also one that follows the close of
\* a child), trimmed or verbatim by the setting (a value the setting has had
\* during the parse, the one value when no call changed it), and empty when
\* there was none; earlier runs are overwritten, not concatenated, so that
\* under trimming a later run of white space leaves the empty string.
C11_TextIsLastCharData ==
    \A n \in NodeIds :
        /\ CharDataUnder(n) = <<>> => nodes[n].Text = <<>>
        /\ CharDataUnder(n) # <<>> =>
              \E v \in SettingsSinceStart :
                  /\ ~v => IsTrimOf(nodes[n].Text, LastCharData(n))
                  /\ v => nodes[n].Text = LastCharData(n)

\* a successful parse under trimming in which " b " and then white space came
\* for the same element: its Text is empty
C11_Witness ==
    /\ Success
    /\ SettingIs(FALSE)
    /\ Len(CharDataUnder(1)) = 2
    /\ CharDataUnder(1)[1].tok.Data = <<" ", "b", " ">>
    /\ LastCharData(1) = <<" ", "\n">>
    /\ nodes[1].Text = <<>>

-----------------------------------------------------------------------------
(* C12 *)

\* a turn of the loop processes character data while there is no cursor
DropsCharData == hist' # hist /\ t.kind = "CharData" /\ e = 0

\* C12: character data processed while no cursor exists (before the first
\* start-element or after the root was closed) is discarded: Root, the
\* processing instruction, the directives, every Node and the cursor stay as
\* they are and the parse goes on; an input of character data only, ended by
\* end-of-input, returns a Document with Root absent and no error.
C12_CharDataOutsideElementsDiscarded ==
    /\ [][DropsCharData => (doc' = doc /\ nodes' = nodes /\ e' = e /\ pc' = "loop")]_vars
    /\ []((pc = "returned" /\ err = "EOF" /\ hist # <<>>
             /\ \A i \in 1..Len(hist) : hist[i].tok.kind = "CharData")
            => (ret = [doc |-> 1, err |-> "nil"] /\ doc = NewDocument /\ nodes = <<>>))

\* character data has been dropped after the root was closed, the Document
\* holding a Node, a processing instruction and a directive
C12_Witness ==
    /\ pc = "loop"
    /\ Len(hist) = MaxTokens
    /\ hist[Len(hist)].tok.kind = "CharData"
    /\ hist[Len(hist)].cur = 0
    /\ Len(nodes) = 1
    /\ nodes[1].Text = <<>>
    /\ doc.ProcInst # ""

-----------------------------------------------------------------------------
(* C13 *)

\* the Nodes opened and not yet closed after the first k tokens, innermost last,
\* read off the tokens alone: the j-th start-element made Node j
RECURSIVE OpenNodes(_)
OpenNodes(k) ==
    IF k = 0 THEN <<>>
    ELSE LET before == OpenNodes(k - 1)
             kind == hist[k].tok.kind
         IN  IF kind = "StartElement"
             THEN Append(before,
                         Cardinality({j \in 1..k : hist[j].tok.kind = "StartElement"}))
             ELSE IF kind = "EndElement" /\ before # <<>>
             THEN SubSeq(before, 1, Len(before) - 1)
             ELSE before

\* the number of Parent links from n to nil
Depth(n) == CHOOSE k \in 0..Len(nodes) : Walk(n, k) = 0 /\ \A j \in 0..k - 1 : Walk(n, j) # 0

\* start-elements minus end-elements among the tokens processed
OpenCount ==
    Cardinality({i \in 1..Len(hist) : hist[i].tok.kind = "StartElement"})
      - Cardinality({i \in 1..Len(hist) : hist[i].tok.kind = "EndElement"})

\* C13: at every step over a balanced token stream the cursor is the most
\* recently opened, not yet closed Node: absent before the first start-element
\* and again once every open element is closed, the new Node after a
\* start-element, the Parent of the old cursor after an end-element, and at a
\* depth equal to the start-elements minus the end-elements processed.
C13_CursorIsInnermostOpenNode ==
    /\ [](pc \in {"loop", "returned"} =>
            LET open == OpenNodes(Len(hist))
            IN  /\ e = IF open = <<>> THEN 0 ELSE open[Len(open)]
                /\ Depth(e) = OpenCount
                /\ Starts = <<>> => e = 0)
    /\ [][(hist' # hist /\ t.kind = "StartElement") =>
             (e' = Len(nodes') /\ Len(nodes') = Len(nodes) + 1)]_vars
    /\ [][(hist' # hist /\ t.kind = "EndElement") => (e # 0 /\ e' = nodes[e].Parent)]_vars

\* two elements opened, the inner one closed: the cursor is back on the outer one
C13_Witness ==
    /\ pc = "loop"
    /\ Len(hist) = 3
    /\ hist[3].tok.kind = "EndElement"
    /\ OpenNodes(3) = <<1>>
    /\ Len(nodes) = 2
    /\ e = 1
    /\ Depth(e) = 1

-----------------------------------------------------------------------------
(* C14 *)

\* the processing-instruction tokens processed, in order
ProcInsts == SelectSeq(hist, LAMBDA h : h.tok.kind = "ProcInst")

\* C14: Document.ProcInst is the stringification of the last
\* processing-instruction token processed, inside or outside elements, and
\* empty if there was none, in every state and so after a successful parse; a
\* processing-instruction token changes nothing else: cursor, Nodes, Root and
\* Directives stay.
C14_ProcInstIsLastOne ==
    /\ [](doc.ProcInst = IF ProcInsts = <<>> THEN ""
                         ELSE StringifyProcInst(ProcInsts[Len(ProcInsts)].tok))
    /\ [](Success => ret.doc = docAddr)
    /\ [][(hist' # hist /\ t.kind = "ProcInst") =>
             /\ e' = e
             /\ nodes' = nodes
             /\ doc'.Root = doc.Root
             /\ doc'.Directives = doc.Directives
             /\ pc' = "loop"]_vars

\* a successful parse of two different processing instructions, one before the
\* root and one inside it: the second is the one kept
C14_Witness ==
    /\ Success
    /\ Len(ProcInsts) = 2
    /\ ProcInsts[1].cur = 0
    /\ ProcInsts[2].cur = 1
    /\ ProcInsts[1].tok.Target = "xml"
    /\ ProcInsts[2].tok.Target = "xml-stylesheet"
    /\ doc.ProcInst = "<?xml-stylesheet href?>"

-----------------------------------------------------------------------------
(* C15 *)

\* the directive tokens processed, in order
DirectiveToks == SelectSeq(hist, LAMBDA h : h.tok.kind = "Directive")

\* C15: Document.Directives holds exactly one entry per directive token
\* processed, in the order of the tokens, none dropped, merged or reordered, in
\* every state and so after a successful parse; a directive token changes
\* nothing else: cursor, Nodes, Root and ProcInst stay.
C15_DirectivesInOrder ==
    /\ [](/\ Len(doc.Directives) = Len(DirectiveToks)
          /\ \A i \in 1..Len(DirectiveToks) :
                doc.Directives[i] = StringifyDirective(DirectiveToks[i].tok))
    /\ [][(hist' # hist /\ t.kind = "Directive") =>
             /\ e' = e
             /\ nodes' = nodes
             /\ doc'.Root = doc.Root
             /\ doc'.ProcInst = doc.ProcInst
             /\ Len(doc'.Directives) = Len(doc.Directives) + 1
             /\ pc' = "loop"]_vars

\* a successful parse of two different directives, one before the root and one
\* inside it, kept in that order
C15_Witness ==
    /\ Success
    /\ Len(DirectiveToks) = 2
    /\ DirectiveToks[1].cur = 0
    /\ DirectiveToks[2].cur = 1
    /\ doc.Directives = <<"<!DOCTYPE a>", "<!ENTITY b>">>

-----------------------------------------------------------------------------
(* C16 *)

\* C16: over a finite token sequence Parse terminates; it pulls one token at a
\* time, in order, and processes each pulled token exactly once, the token in
\* hand being the last one pulled (no lookahead, no backtracking); at the first
\* terminal signal (end-of-input or an error) it pulls no more and returns; and
\* only end-of-input yields success.
C16_TerminatesOnePullPerToken ==
    /\ (pc = "loop") ~> (pc = "returned")
    /\ [](pulls >= 1 => pulls = Len(hist) + 1)
    /\ [](\A i \in 1..Len(hist) : hist[i].tok.kind # "nil")
    /\ [][hist' # hist =>
             /\ t.kind # "nil"
             /\ hist' = Append(hist, [tok |-> t, cur |-> e])
             /\ pulls' = pulls + 1]_vars
    /\ [][pulls' # pulls => (pulls' = pulls + 1 /\ (pulls >= 1 => hist' # hist))]_vars
    /\ [][(pc = "loop" /\ t.kind = "nil") =>
             (pulls' = pulls /\ hist' = hist /\ t' = t /\ pc' \in {"loop", "returned"})]_vars
    /\ [][pc = "returned" => (pc' = "returned" /\ pulls' = pulls /\ ret' = ret)]_vars
    /\ []((pc = "returned" /\ pulls >= 1) => (t.kind = "nil" /\ err # "nil"))
    /\ [](Success => err = "EOF")
    /\ []((pc = "returned" /\ err \in SourceErrors) => ret = [doc |-> 0, err |-> err])

\* a call has returned on a syntax error after three pulls, two tokens processed
C16_Witness ==
    /\ pc = "returned"
    /\ pulls = 3
    /\ Len(hist) = 2
    /\ err = "syntaxError"
    /\ ret = [doc |-> 0, err |-> "syntaxError"]
    /\ hist[1].tok.kind = "StartElement"

-----------------------------------------------------------------------------
(* C17 *)

\* the places of Node n in the Children of Node p
PlacesIn(p, n) == {i \in DOMAIN nodes[p].Children : nodes[p].Children[i] = n}

\* C17: in every state of the build the Parent and Children links agree: Node
\* n has Parent p (not nil) exactly if n occurs in p.Children, it occurs there
\* exactly once, no Node occurs in the Children of two Nodes, and every Node's
\* Document is the Document being built.
C17_ParentAndChildrenAgree ==
    \A n \in NodeIds :
        /\ nodes[n].Parent \in {0} \cup NodeIds
        /\ \A p \in NodeIds :
              /\ nodes[n].Parent = p <=> PlacesIn(p, n) # {}
              /\ nodes[n].Parent = p => Cardinality(PlacesIn(p, n)) = 1
        /\ Cardinality(ParentsOf(n)) <= 1
        /\ nodes[n].Document = docAddr
        /\ docAddr = 1
        /\ \A p \in NodeIds : \A i \in DOMAIN nodes[p].Children :
              nodes[p].Children[i] \in NodeIds

\* the build is under way with a root without Parent, its child and the
\* child's own child
C17_Witness ==
    /\ pc = "loop"
    /\ Len(nodes) = 3
    /\ nodes[1].Children = <<2>>
    /\ nodes[2].Children = <<3>>
    /\ nodes[3].Parent = 2
    /\ nodes[2].Parent = 1
    /\ nodes[1].Parent = 0
    /\ e = 3

-----------------------------------------------------------------------------
(* C18 *)

\* the source has so far delivered no end-element without an open start-element
\* (stk counts the start-elements minus the end-elements delivered, the token in
\* hand included)
SourceBalanced == stk >= 0

\* a turn of the loop processes an end-element
ProcessesEndElement == hist' # hist /\ t.kind = "EndElement"

\* C18: whenever an end-element is to be processed and the source has delivered
\* no end-element without a matching open start-element, the cursor is present,
\* so a source that keeps the balance never makes the builder dereference nil;
\* the builder makes no test of its own: an unmatched end-element that reaches
\* it finds the cursor nil and the call panics instead of returning an error.
C18_EndElementNeedsBalancedSource ==
    /\ []((pc = "loop" /\ t.kind = "EndElement") => (SourceBalanced <=> e # 0))
    /\ [][(ProcessesEndElement /\ e # 0) => (pc' = "loop" /\ e' = nodes[e].Parent)]_vars
    /\ [][(ProcessesEndElement /\ e = 0) => (pc' = "panic" /\ ret' = ret)]_vars
    /\ [](pc = "panic" =>
            /\ ret = [doc |-> 0, err |-> "none"]
            /\ ~SourceBalanced
            /\ hist[Len(hist)] = [tok |-> EndElementTok, cur |-> 0])
    /\ [][pc = "panic" => UNCHANGED vars]_vars

\* a root was opened and closed, then a second end-element reached the builder:
\* the call has panicked and returned nothing
C18_Witness ==
    /\ pc = "panic"
    /\ Len(hist) = 3
    /\ hist[1].tok.kind = "StartElement"
    /\ hist[2] = [tok |-> EndElementTok, cur |-> 1]
    /\ hist[3] = [tok |-> EndElementTok, cur |-> 0]
    /\ Len(nodes) = 1
    /\ stk = -1

-----------------------------------------------------------------------------
(* C19 *)

\* doc, the Nodes and e as the loop leaves them after the first k tokens
\* processed when every read of s.preserveWhitespace gives pw
RECURSIVE Build(_, _)
Build(k, pw) ==
    IF k = 0 THEN [nodes |-> <<>>, doc |-> NewDocument, e |-> 0, panic |-> FALSE]
    ELSE Switch(Build(k - 1, pw), hist[k].tok, pw)

\* a Node without its Text
Untexted(node) == [node EXCEPT !.Text = <<>>]

\* what the call returns for the signal that ended the pulls
Outcome == IF err = "EOF" /\ docAddr # 0 THEN [doc |-> docAddr, err |-> "nil"]
           ELSE [doc |-> 0, err |-> err]

\* C19: preserveWhitespace bears on Node.Text only.  The tokens processed, run
\* once with the setting false and once with it true, give the same outcome
\* and Documents with the same Root, ProcInst, Directives and cursor and the
\* same Nodes (Names, Parents, Children in order, Attribute names and values,
\* the values untrimmed) but for the Texts, each trimmed Text being the verbatim
\* one without its leading and trailing white space; the Document being built
\* is one of the two when the setting did not change, and what is returned
\* depends on the source's last signal alone.
C19_SettingBearsOnTextOnly ==
    LET F == Build(Len(hist), FALSE)
        T == Build(Len(hist), TRUE)
    IN  /\ F.panic = T.panic
        /\ F.doc = T.doc
        /\ F.e = T.e
        /\ Len(F.nodes) = Len(T.nodes)
        /\ \A n \in 1..Len(F.nodes) :
              /\ Untexted(F.nodes[n]) = Untexted(T.nodes[n])
              /\ IsTrimOf(F.nodes[n].Text, T.nodes[n].Text)
        /\ pc \in {"loop", "returned"} =>
              /\ doc = F.doc
              /\ e = F.e
              /\ Len(nodes) = Len(F.nodes)
              /\ \A n \in NodeIds :
                    /\ Untexted(nodes[n]) = Untexted(F.nodes[n])
                    /\ nodes[n].Text \in {F.nodes[n].Text, T.nodes[n].Text}
              /\ SettingIs(FALSE) => nodes = F.nodes
              /\ SettingIs(TRUE) => nodes = T.nodes
        /\ (pc = "returned" /\ pulls >= 1) => ret = Outcome

\* a successful parse under the setting true of an element with an attribute
\* and text, both with white space around them, and a processing instruction:
\* under false the Text alone would differ
C19_Witness ==
    /\ Success
    /\ SettingIs(TRUE)
    /\ Len(hist) = 4
    /\ doc.ProcInst # ""
    /\ Len(nodes) = 1
    /\ nodes[1].Attributes = <<[Name |-> "id", Value |-> " v "]>>
    /\ nodes[1].Text = <<" ", "b", " ">>
    /\ Build(4, TRUE).nodes = nodes
    /\ Build(4, FALSE).nodes[1].Text = <<"b">>
    /\ Build(4, FALSE).nodes[1].Attributes = nodes[1].Attributes
    /\ Build(4, FALSE).doc = doc

=============================================================================
